---- MODULE Spec2Model ----
(***************************************************************************)
(* The login automations of the library: LoginToLinkedin                   *)
(* (apps/linkedin/auth/basic-2fa-login.ts), LoginToComplyAdvantageMesh     *)
(* (apps/comply-advantage/mesh/auth/basic-login.ts) and loginWithAgent.    *)
(* One behaviour is one invocation of one entry point.  The environment    *)
(* (process.env, the credential provider, the session provisioner and the  *)
(* page driver) is nondeterministic: every collaborator call either        *)
(* resolves or rejects, and the page shows whatever it shows.  Every call  *)
(* made on a collaborator is appended to calls, the way a recording fake   *)
(* driver would.  Text values (user names, passwords, one-time codes,      *)
(* field names) are sequences of one-character strings.                    *)
(***************************************************************************)
EXTENDS Integers, Sequences, FiniteSets, TLC

VARIABLES
    flow,         \* which entry point was invoked
    env,          \* process.env as the entry point sees it
    pc,           \* the position of the invocation in its code
    config,       \* the parsed Config
    credentials,  \* the resolved credentials (let credentials)
    calls,        \* every collaborator call issued so far, in order
    url,          \* page.url() of the page being driven
    otpInputs,    \* what locateOtpInputs returned
    lastVerify,   \* how the latest verifyLogin / verifyMeshLogin ended
    preCheck,     \* how the pre-login verifyLogin (step 2) ended
    authPage,     \* the page selectMeshLoginOption chose
    agentVerdict, \* what the agent task answered (never read by the code)
    browser,      \* "acquired" once connect or create has resolved
    missing,      \* the required fields the bundle first fetched lacks
    firstCredentials, \* the credentials resolved from the bundle first fetched
    results,      \* the results array of the selector probes being awaited
    attempts,     \* several invocations running at once in one process
    sessions,     \* the browser sessions of the provisioner, when several run
    decided,      \* the completion of the try/catch, before finally runs
    result        \* how the invocation ended for its caller

vars == <<flow, env, pc, config, credentials, calls, url, otpInputs,
          lastVerify, preCheck, authPage, agentVerdict, browser, missing,
          firstCredentials, results, attempts, sessions, decided, result>>

-----------------------------------------------------------------------------
(* Bounds of the model *)

MaxBundleLen == 2
MaxDigitFields == 7
MaxVisible == 2
MaxOtherPages == 1

(* Program constants *)

DefaultTimeoutMs == 10000
VerifyFloorMs == 60000
StepVerifyFloorMs == 10000
NavigationWaitMs == 45000
MinDigitFields == 6
BannerTimeoutMs == 2000
OrganizationTimeoutMs == 7000

-----------------------------------------------------------------------------
(* Text *)

Min(a, b) == IF a < b THEN a ELSE b
Max(a, b) == IF a > b THEN a ELSE b

Empty == <<>>
U1 == <<"u">>
U2 == <<"v">>
P1 == <<"p">>
P2 == <<"q">>
Code6 == <<"1", "2", "3", "4", "5", "6">>
Acme == <<"a", "c", "m", "e">>

LowerChar(c) ==
    CASE c = "O" -> "o" [] c = "C" -> "c" [] c = "M" -> "m" [] c = "P" -> "p"
      [] c = "A" -> "a" [] c = "N" -> "n" [] c = "Y" -> "y" [] OTHER -> c

\* String.prototype.toLowerCase
toLowerCase(s) == [i \in 1..Len(s) |-> LowerChar(s[i])]

\* String.prototype.includes
includes(s, sub) ==
    \E i \in 0..(Len(s) - Len(sub)) : SubSeq(s, i + 1, i + Len(sub)) = sub

OrganizationWord == <<"o", "r", "g", "a", "n", "i", "z", "a", "t", "i", "o", "n">>
CompanyWord == <<"c", "o", "m", "p", "a", "n", "y">>

NameOrganization == <<"O", "r", "g", "a", "n", "i", "z", "a", "t", "i", "o", "n">>
NameCompany == <<"C", "O", "M", "P", "A", "N", "Y">>
NameTeam == <<"t", "e", "a", "m">>

-----------------------------------------------------------------------------
(* Messages and outcomes.  A message is its text's kind and the values     *)
(* interpolated into it; EmptyMsg is the empty string.                     *)

Msg(kind, args) == [kind |-> kind, args |-> args]
EmptyMsg == Msg("", <<>>)

BoolText(b) == IF b THEN "true" ELSE "false"

\* The collaborators whose Error the model lets carry an empty message
EmptyMessageSources == {"goto", "retrieveCredentials", "browser", "agent.task"}

\* What a rejecting collaborator raises: an Error whose message is empty or not.
ThrownMsgs(source) ==
    {Msg("error", <<source>>)}
        \cup (IF source \in EmptyMessageSources THEN {EmptyMsg} ELSE {})
\* The same where nothing reads the message
Rejection(source) == Msg("error", <<source>>)

NoOutcome == [kind |-> "none", success |-> FALSE, message |-> EmptyMsg]
Returned(s, m) == [kind |-> "returned", success |-> s, message |-> m]
Threw(m) == [kind |-> "threw", success |-> FALSE, message |-> m]

\* errorMessage || fallback
OrDefault(m, fallback) == IF m = EmptyMsg THEN Msg(fallback, <<>>) ELSE m

-----------------------------------------------------------------------------
(* Collaborator calls *)

\* op: the primitive; target: the selector, page or URL it acts on; nth: the
\* index given to locator.nth (0 otherwise); arg: the text or key passed;
\* ms: the timeout passed (0: none); out: how the call settled: "resolved",
\* "caught" (it rejected and a catch next to it took the rejection), "thrown"
\* (it rejected out of the step that awaited it) or "pending"
Call(op, target, nth, arg, ms) ==
    [op |-> op, target |-> target, nth |-> nth, arg |-> arg, ms |-> ms,
     out |-> "resolved"]

\* The call c, settled as o
Out(c, o) == [c EXCEPT !.out = o]

\* .catch(() => ...) is attached to these, so they never reject to the caller
Rejectable(c) == c.op \notin {"waitForNavigation", "isVisible", "url"}

\* Where a sequence of awaited primitives can reject: nowhere (0) or at a
\* rejectable call
FailPoints(prims) == {0} \cup {k \in 1..Len(prims) : Rejectable(prims[k])}

\* The calls a sequence of awaited primitives issues when the k-th of them
\* rejects (k = 0: none rejects).  The rejecting call was issued too.
Issued(prims, k) ==
    IF k = 0 THEN prims
    ELSE Append(SubSeq(prims, 1, k - 1), Out(prims[k], "thrown"))

\* The same inside a try block of the step's own: the rejection is taken there
Swallowed(prims, k) ==
    IF k = 0 THEN prims
    ELSE Append(SubSeq(prims, 1, k - 1), Out(prims[k], "caught"))

CountCalls(log, P(_)) == Cardinality({i \in 1..Len(log) : P(log[i])})

-----------------------------------------------------------------------------
(* Credential bundles (types.ts AuthMethodTypeSchema; the provider's       *)
(* IdentityCredentialsResponse['credentials'])                             *)

UsernamePassword(u, p) ==
    [type |-> "username_password", username |-> u, password |-> p,
     otp |-> Empty, fields |-> <<>>]
Authenticator(o) ==
    [type |-> "authenticator", username |-> Empty, password |-> Empty,
     otp |-> o, fields |-> <<>>]
Custom(fs) ==
    [type |-> "custom", username |-> Empty, password |-> Empty,
     otp |-> Empty, fields |-> fs]
Field(n, v) == [name |-> n, value |-> v]

RecordPool ==
    { UsernamePassword(U1, P1),
      UsernamePassword(Empty, P2), UsernamePassword(U1, Empty),
      Authenticator(Code6), Authenticator(Empty),
      Custom(<<Field(NameTeam, U2), Field(NameOrganization, Acme)>>),
      Custom(<<Field(NameCompany, Empty)>>),
      Custom(<<Field(NameTeam, Acme)>>) }

RECURSIVE SeqsUpTo(_, _)
SeqsUpTo(S, n) ==
    IF n = 0 THEN {<<>>}
    ELSE LET shorter == SeqsUpTo(S, n - 1)
         IN  shorter \cup {Append(s, x) : s \in {t \in shorter : Len(t) = n - 1}, x \in S}

Bundles == SeqsUpTo(RecordPool, MaxBundleLen)

NoCredentials ==
    [username |-> Empty, password |-> Empty, otp |-> Empty, organization |-> Empty]

RequiredFields == {"username", "password"}

\* The required fields that no username_password record of a bundle carries
MissingFields(b) ==
    {f \in RequiredFields :
        ~\E i \in 1..Len(b) : b[i].type = "username_password" /\ b[i][f] # Empty}

MissingLinkedin(c) ==
    Msg("Missing required credentials. Found:",
        <<"username", BoolText(c.username # Empty),
          "password", BoolText(c.password # Empty)>>)

RECURSIVE LinkedinForEach(_, _)
LinkedinForEach(creds, acc) ==
    IF creds = <<>> THEN acc
    ELSE LET cred == Head(creds)
         IN  LinkedinForEach(Tail(creds),
                 IF cred.type = "username_password"
                 THEN [acc EXCEPT !.username = cred.username, !.password = cred.password]
                 ELSE IF cred.type = "authenticator"
                 THEN [acc EXCEPT !.otp = cred.otp]
                 ELSE acc)

\* The forEach keeping a value already found when a later record has none
RECURSIVE LinkedinForEachKeeping(_, _)
LinkedinForEachKeeping(creds, acc) ==
    IF creds = <<>> THEN acc
    ELSE LET cred == Head(creds)
         IN  LinkedinForEachKeeping(Tail(creds),
                 IF cred.type = "username_password"
                 THEN [acc EXCEPT !.username = IF cred.username # Empty
                                               THEN cred.username ELSE @,
                                  !.password = IF cred.password # Empty
                                               THEN cred.password ELSE @]
                 ELSE IF cred.type = "authenticator"
                 THEN [acc EXCEPT !.otp = cred.otp]
                 ELSE acc)

\* parseLinkedinCredentials over that forEach
parseLinkedinCredentialsMixing(creds) ==
    LET c == LinkedinForEachKeeping(creds, NoCredentials)
    IN  IF c.username = Empty \/ c.password = Empty
        THEN [ok |-> FALSE, creds |-> NoCredentials, msg |-> MissingLinkedin(c)]
        ELSE [ok |-> TRUE, creds |-> c, msg |-> EmptyMsg]

\* [ok, creds, msg]: the returned credentials, or the Error thrown
parseLinkedinCredentials(creds) ==
    LET c == LinkedinForEach(creds, NoCredentials)
    IN  IF c.username = Empty \/ c.password = Empty
        THEN [ok |-> FALSE, creds |-> NoCredentials, msg |-> MissingLinkedin(c)]
        ELSE [ok |-> TRUE, creds |-> c, msg |-> EmptyMsg]

MissingComply(c) ==
    Msg("Missing required credentials. Found:",
        <<"organization", BoolText(c.organization # Empty),
          "username", BoolText(c.username # Empty),
          "password", BoolText(c.password # Empty)>>)

IsOrgField(f) ==
    \/ includes(toLowerCase(f.name), OrganizationWord)
    \/ includes(toLowerCase(f.name), CompanyWord)

\* Array.prototype.find over cred.fields: [found, value]
FindOrgField(fs) ==
    IF \E i \in 1..Len(fs) : IsOrgField(fs[i])
    THEN LET i == CHOOSE j \in 1..Len(fs) :
                      IsOrgField(fs[j]) /\ \A k \in 1..(j - 1) : ~IsOrgField(fs[k])
         IN  [found |-> TRUE, value |-> fs[i].value]
    ELSE [found |-> FALSE, value |-> Empty]

RECURSIVE ComplyForEach(_, _)
ComplyForEach(creds, acc) ==
    IF creds = <<>> THEN acc
    ELSE LET cred == Head(creds)
             org == FindOrgField(cred.fields)
         IN  ComplyForEach(Tail(creds),
                 IF cred.type = "username_password"
                 THEN [acc EXCEPT !.username = cred.username, !.password = cred.password]
                 ELSE IF cred.type = "custom" /\ org.found
                 THEN [acc EXCEPT !.organization = org.value]
                 ELSE acc)

parseComplyAdvantageCredentials(creds) ==
    LET c == ComplyForEach(creds, NoCredentials)
    IN  IF c.organization = Empty \/ c.username = Empty \/ c.password = Empty
        THEN [ok |-> FALSE, creds |-> NoCredentials, msg |-> MissingComply(c)]
        ELSE [ok |-> TRUE, creds |-> c, msg |-> EmptyMsg]

-----------------------------------------------------------------------------
(* Configuration (process.env through the zod ConfigSchema)                *)

Unset == "<undefined>"

\* z.coerce.number(): Number(value); -1 stands for NaN, which zod rejects
CoerceNumber(s) ==
    CASE s = "90000" -> 90000
      [] s = "5000" -> 5000
      [] s = "0" -> 0
      [] OTHER -> -1

NoConfig == [sessionId |-> "", identityId |-> "", apiKey |-> "", timeoutMs |-> 0]

ZodError(path) == Msg("ZodError", <<path>>)

\* z.string().min(1, ...)
RequiredString(v) == v # Unset /\ v # ""
\* z.string().default('')
DefaultedString(v) == IF v = Unset THEN "" ELSE v
\* z.coerce.number().default(10000)
TimeoutOk(v) == v = Unset \/ CoerceNumber(v) # -1
TimeoutOf(v) == IF v = Unset THEN DefaultTimeoutMs ELSE CoerceNumber(v)

\* getConfig of the selector flows: [ok, config, msg]
getConfig(e) ==
    IF ~RequiredString(e.identityId)
    THEN [ok |-> FALSE, config |-> NoConfig, msg |-> ZodError("identityId")]
    ELSE IF ~TimeoutOk(e.timeoutMs)
    THEN [ok |-> FALSE, config |-> NoConfig, msg |-> ZodError("timeoutMs")]
    ELSE [ok |-> TRUE, msg |-> EmptyMsg,
          config |-> [sessionId |-> DefaultedString(e.sessionId),
                      identityId |-> e.identityId,
                      apiKey |-> DefaultedString(e.apiKey),
                      timeoutMs |-> TimeoutOf(e.timeoutMs)]]

\* getConfig of the agent flow: sessionId and identityId are both required
getAgentConfig(e) ==
    IF ~RequiredString(e.sessionId)
    THEN [ok |-> FALSE, config |-> NoConfig, msg |-> ZodError("sessionId")]
    ELSE IF ~RequiredString(e.identityId)
    THEN [ok |-> FALSE, config |-> NoConfig, msg |-> ZodError("identityId")]
    ELSE [ok |-> TRUE, msg |-> EmptyMsg,
          config |-> [sessionId |-> e.sessionId, identityId |-> e.identityId,
                      apiKey |-> "", timeoutMs |-> 0]]

\* String.prototype.trim of the environment values the model uses
trim(s) == IF s = " " THEN "" ELSE s

\* validateRequiredInputs: [ok, msg]
validateRequiredInputs(e) ==
    LET c == getConfig(e)
    IN  IF ~c.ok THEN [ok |-> FALSE, msg |-> c.msg]
        ELSE IF trim(c.config.identityId) = ""
        THEN [ok |-> FALSE, msg |-> Msg("Missing required input ANCHOR_IDENTITY_ID.", <<>>)]
        ELSE IF trim(c.config.apiKey) = ""
        THEN [ok |-> FALSE, msg |-> Msg("Missing required input ANCHOR_API_KEY.", <<>>)]
        ELSE [ok |-> TRUE, msg |-> EmptyMsg]

Flows == {"linkedin", "comply", "agent"}

EnvsOf(f) ==
    [identityId : IF f = "comply" THEN {Unset, "", " ", "id-1"} ELSE {Unset, "", "id-1"},
     sessionId : {Unset, "sess-1"},
     timeoutMs : IF f = "agent" THEN {Unset} ELSE {Unset, "abc", "0", "90000"},
     apiKey : IF f = "comply" THEN {Unset, "key-1"} ELSE {Unset}]

-----------------------------------------------------------------------------
(* Pages *)

\* The URLs a page may be at, by what the code can tell of them
LinkedinUrls == {"login", "feed"}
ComplyUrls == {"home", "auth0", "mesh", "unrelated"}
\* where the original page, another open page, a page the Mesh button opens
\* and the page driven at the end may be
OriginalPageUrls == {"home", "unrelated"}
OtherPageUrls == {"auth0", "unrelated"}
NewPageUrls == {"auth0"}
MeshEndUrls == {"auth0", "mesh"}

FeedPattern == "**linkedin.com/feed/**"
MeshPattern == "**mesh.complyadvantage.com/**"
Auth0Pattern == "**auth0.com/**"

\* '**linkedin.com/feed/**' and /linkedin\.com\/feed\//
OnFeed(u) == u = "feed"
\* '**mesh.complyadvantage.com/**' and /mesh\.complyadvantage\.com\//
OnMesh(u) == u = "mesh"
\* /complyadvantage|auth0|mesh/i
IsAuthProviderUrl(u) == u \in {"home", "auth0", "mesh"}


-----------------------------------------------------------------------------
(* Selectors *)

UsernameField == "input#username"
PasswordField == "input#password"
LoginNavButton == "#login-nav-button"
OtpDigitFields == "otp-digits"

\* clickCommonSubmit's submitSelectors, in declared order
submitSelectors ==
    << "button:has-text(Submit)", "button:has-text(Verify)",
       "button:has-text(Continue)", "button[type=submit]", "input[type=submit]" >>

\* locateOtpInputs' singleSelectors, in declared order
singleSelectors ==
    << "input[name=pin][maxlength=6]", "input[name=code]",
       "input[autocomplete=one-time-code]", "input[id*=verification i]",
       "input[inputmode=numeric][maxlength=6]" >>

\* What locator.count() of the single-digit inputs may answer: none, one too
\* few, just enough, more
DigitCounts == {0, MinDigitFields - 1, MinDigitFields, MaxDigitFields}

\* The sets of selectors of a list that the page may show as visible
VisibleSets(sels) == {V \in SUBSET (1..Len(sels)) : Cardinality(V) <= MaxVisible}

\* results.find((r) => r !== null) over the probes, which Promise.all keeps
\* in the order of the selector list: 0 when none is visible
FirstVisible(V) == IF V = {} THEN 0 ELSE CHOOSE i \in V : \A j \in V : i <= j

Probes(sels) == [i \in 1..Len(sels) |-> Call("isVisible", sels[i], 0, Empty, 0)]

Null == "null"

\* What each probe async (sel) => (isVisible ? sel : null) settles with, when
\* the page shows the selectors of V
ProbeValues(sels, V) == [i \in 1..Len(sels) |-> IF i \in V THEN sels[i] ELSE Null]

\* The orders in which n promises issued together may settle: the order of
\* issue, its reverse, and their rotations
CompletionOrders(n) ==
    {[k \in 1..n |-> ((k + r - 1) % n) + 1] : r \in 0..(n - 1)}
        \cup {[k \in 1..n |-> n - ((k + r - 1) % n)] : r \in 0..(n - 1)}

\* Promise.all over promises that settle with values, in the order given:
\* each value is stored at the index of its promise as it settles
RECURSIVE SettleInto(_, _, _, _)
SettleInto(arr, values, order, k) ==
    IF k > Len(values) THEN arr
    ELSE SettleInto([arr EXCEPT ![order[k]] = values[order[k]]], values, order, k + 1)

\* Promise.all keeping the values in the order of settlement instead
PromiseAllBySettlement(values, order) == [k \in 1..Len(values) |-> values[order[k]]]

PromiseAll(values, order) ==
    SettleInto([i \in 1..Len(values) |-> Null], values, order, 1)

\* results.find((r) => r !== null): the index of the value found, 0 for undefined
find(res) == FirstVisible({i \in 1..Len(res) : res[i] # Null})

-----------------------------------------------------------------------------
(* Step functions of basic-2fa-login.ts, as functions of what the page does *)

NoInputs == [type |-> "none", selector |-> "", count |-> 0]

\* navigateToHomepage: [calls, ok]
navigateToHomepage(homeUrl, timeoutMs, gotoOk, buttonVisible) ==
    IF gotoOk
    THEN [calls |-> <<Call("goto", homeUrl, 0, Empty, timeoutMs)>>, ok |-> TRUE]
    ELSE [calls |-> <<Out(Call("goto", homeUrl, 0, Empty, timeoutMs),
                          IF buttonVisible THEN "caught" ELSE "thrown"),
                      Call("isVisible", LoginNavButton, 0, Empty, 0)>>,
          ok |-> buttonVisible]

\* verifyLogin: waited says whether waitForURL resolved, u is page.url()
\* read after it rejected.  [calls, ok, url, how]
verifyLogin(timeoutMs, fallbackTimeout, waited, u) ==
    LET wait == Call("waitForURL", FeedPattern, 0, Empty, Max(timeoutMs, fallbackTimeout))
    IN  IF waited
        THEN [calls |-> <<wait>>, ok |-> TRUE, url |-> "feed", how |-> "wait"]
        ELSE [calls |-> <<Out(wait, "caught"), Call("url", "page", 0, Empty, 0)>>,
              ok |-> OnFeed(u), url |-> u,
              how |-> IF OnFeed(u) THEN "recheck" ELSE "timeout"]

\* enterUsername
enterUsernamePrims(username, timeoutMs) ==
    << Call("waitForSelector", UsernameField, 0, Empty, timeoutMs),
       Call("fill", UsernameField, 0, username, 0),
       Call("press", UsernameField, 0, <<"Tab">>, 0) >>

\* enterPasswordAndSubmit
enterPasswordAndSubmitPrims(password, timeoutMs) ==
    << Call("waitForSelector", PasswordField, 0, Empty, timeoutMs),
       Call("fill", PasswordField, 0, password, 0),
       Call("press", PasswordField, 0, <<"Enter">>, 0) >>

\* clickCommonSubmit: res is the results array of the probes of
\* submitSelectors.  [calls, clicked]
clickCommonSubmit(res) ==
    LET i == find(res)
    IN  IF i # 0
        THEN [calls |-> Probes(submitSelectors) \o
                        << Call("waitForNavigation", "page", 0, Empty, NavigationWaitMs),
                           Call("click", res[i], 0, Empty, 0) >>,
              clicked |-> TRUE]
        ELSE [calls |-> Probes(submitSelectors), clicked |-> FALSE]

\* locateOtpInputs: res is the results array of the probes of
\* singleSelectors, n the number of single-digit inputs (0 when count()
\* rejects).  [calls, inputs]
locateOtpInputs(res, n) ==
    LET i == find(res)
    IN  IF i # 0
        THEN [calls |-> Probes(singleSelectors),
              inputs |-> [type |-> "single", selector |-> res[i], count |-> 0]]
        ELSE [calls |-> Probes(singleSelectors) \o
                        <<Call("count", OtpDigitFields, 0, Empty, 0)>>,
              inputs |-> IF n >= MinDigitFields
                         THEN [type |-> "multi", selector |-> OtpDigitFields, count |-> n]
                         ELSE NoInputs]

\* otpSinglePrims with the submit retried: the Enter key-press issued twice
otpSinglePrimsResubmit(inputs, otp) ==
    << Call("fill", inputs.selector, 0, Empty, 0),
       Call("fill", inputs.selector, 0, otp, 0),
       Call("waitForNavigation", "page", 0, Empty, NavigationWaitMs),
       Call("press", inputs.selector, 0, <<"Enter">>, 0),
       Call("press", inputs.selector, 0, <<"Enter">>, 0) >>

\* submitOtpCode, single branch: the primitives up to the Enter key-press
otpSinglePrims(inputs, otp) ==
    << Call("fill", inputs.selector, 0, Empty, 0),
       Call("fill", inputs.selector, 0, otp, 0),
       Call("waitForNavigation", "page", 0, Empty, NavigationWaitMs),
       Call("press", inputs.selector, 0, <<"Enter">>, 0) >>

RECURSIVE DigitPrims(_, _, _, _)
DigitPrims(sel, arr, i, total) ==
    IF i >= total THEN <<>>
    ELSE << Call("fill", sel, i, Empty, 0),
            Call("type", sel, i, <<arr[i + 1]>>, 0) >>
         \o DigitPrims(sel, arr, i + 1, total)

\* otpMultiPrims with the Enter key-press on the first digit field
otpMultiPrimsPressFirst(inputs, otp, n) ==
    LET arr == otp
        total == Min(n, Len(arr))
    IN  <<Call("count", inputs.selector, 0, Empty, 0)>>
        \o DigitPrims(inputs.selector, arr, 0, total)
        \o << Call("waitForNavigation", "page", 0, Empty, NavigationWaitMs),
              Call("press", inputs.selector, 0, <<"Enter">>, 0) >>

\* submitOtpCode, multi branch: n is what inputs.locator.count() answers now
otpMultiPrims(inputs, otp, n) ==
    LET arr == otp
        total == Min(n, Len(arr))
    IN  <<Call("count", inputs.selector, 0, Empty, 0)>>
        \o DigitPrims(inputs.selector, arr, 0, total)
        \o << Call("waitForNavigation", "page", 0, Empty, NavigationWaitMs),
              Call("press", inputs.selector, total - 1, <<"Enter">>, 0) >>

\* Promise.all([page.waitForNavigation(...).catch(() => null), submit]): the
\* primitives of a step up to the navigation wait are awaited one by one, the
\* navigation wait and what follows it are issued together
RaceStart(prims) ==
    CHOOSE i \in 1..Len(prims) :
        /\ prims[i].op = "waitForNavigation"
        /\ \A j \in 1..(i - 1) : prims[j].op # "waitForNavigation"
BeforeRace(prims) == SubSeq(prims, 1, RaceStart(prims) - 1)
Raced(prims) ==
    [i \in 1..(Len(prims) - RaceStart(prims) + 1) |->
        Out(prims[RaceStart(prims) + i - 1], "pending")]

-----------------------------------------------------------------------------
(* The invocation *)

NoPage == [how |-> "none", url |-> "about:blank"]
NoVerdict == [answer |-> "none", submitted |-> FALSE]

Entry(f) ==
    CASE f = "linkedin" -> "L_getConfig"
      [] f = "comply" -> "C_validate"
      [] f = "agent" -> "A_getConfig"

Init ==
    /\ flow \in Flows
    /\ env \in EnvsOf(flow)
    /\ pc = Entry(flow)
    /\ config = NoConfig
    /\ credentials = NoCredentials
    /\ calls = <<>>
    /\ url = "about:blank"
    /\ otpInputs = NoInputs
    /\ lastVerify = "none"
    /\ preCheck = "none"
    /\ authPage = NoPage
    /\ agentVerdict = NoVerdict
    /\ browser = "none"
    /\ missing = {}
    /\ firstCredentials = NoCredentials
    /\ results = <<>>
    /\ attempts = <<>>
    /\ sessions = {}
    /\ decided = NoOutcome
    /\ result = NoOutcome

\* A rejection that nothing catches ends the invocation with the exception.
Escape(m) ==
    /\ result' = Threw(m)
    /\ pc' = "done"

\* A return outside any try block.
ReturnNow(s, m) ==
    /\ result' = Returned(s, m)
    /\ pc' = "done"

\* ReturnInTry losing the detail of the outcome
ReturnInTryNoDetail(s, m, finallyPc) ==
    /\ decided' = Returned(s, EmptyMsg)
    /\ pc' = finallyPc

\* return inside the try block: finally runs before the caller sees it
ReturnInTry(s, m, finallyPc) ==
    /\ decided' = Returned(s, m)
    /\ pc' = finallyPc

\* LinkedinCatch going on with the terminal verification
LinkedinCatchAndGoOn(m) ==
    ReturnInTry(FALSE, OrDefault(m, "Unknown error during Linkedin login."), "L_finalVerify")

\* The catch clause of the LinkedIn flow (lines 416-422)
LinkedinCatch(m) ==
    ReturnInTry(FALSE, OrDefault(m, "Unknown error during Linkedin login."), "L_finally")

\* A step of the try block that awaits prims in order, any of which may
\* reject: the rejection goes to the catch clause.
LinkedinStep(prims, next) ==
    \E k \in FailPoints(prims) :
        /\ calls' = calls \o Issued(prims, k)
        /\ IF k = 0
           THEN pc' = next /\ UNCHANGED decided
           ELSE \E m \in ThrownMsgs(prims[k].op) : LinkedinCatch(m)

\* The catch clause of the Mesh flow (lines 455-461)
MeshCatch(m) ==
    ReturnInTry(FALSE, OrDefault(m, "Unknown error during Mesh login."), "C_finally")

MeshStep(prims, next) ==
    \E k \in FailPoints(prims) :
        /\ calls' = calls \o Issued(prims, k)
        /\ IF k = 0
           THEN pc' = next /\ UNCHANGED decided
           ELSE \E m \in ThrownMsgs(prims[k].op) : MeshCatch(m)

\* OptionalStep leaving the try block of the flow when a call rejects
OptionalStepEnding(prims, next) ==
    \E k \in FailPoints(prims) :
        /\ calls' = calls \o Swallowed(prims, k)
        /\ pc' = IF k = 0 THEN next ELSE "C_finally"

\* A step whose own try/catch swallows every rejection
OptionalStep(prims, next) ==
    \E k \in FailPoints(prims) :
        /\ calls' = calls \o Swallowed(prims, k)
        /\ pc' = next

\* lines 317-320
LinkedinGetConfig ==
    /\ pc = "L_getConfig"
    /\ LET r == getConfig(env)
       IN  IF r.ok
           THEN config' = r.config /\ pc' = "L_fetch" /\ UNCHANGED result
           ELSE Escape(r.msg) /\ UNCHANGED config
    /\ UNCHANGED <<flow, env, credentials, calls, url, otpInputs, lastVerify,
                   preCheck, authPage, agentVerdict, decided,
                   browser, missing,
                   firstCredentials, results, attempts, sessions>>

\* lines 322-330
LinkedinFetchCredentials ==
    /\ pc = "L_fetch"
    /\ \/ /\ calls' = Append(calls, Out(Call("retrieveCredentials", config.identityId, 0, Empty, 0), "thrown"))
          /\ Escape(Rejection("retrieveCredentials"))
          /\ UNCHANGED <<credentials, missing, firstCredentials>>
       \/ \E b \in Bundles :
              LET r == parseLinkedinCredentials(b)
              IN  /\ calls' = Append(calls, Call("retrieveCredentials", config.identityId, 0, Empty, 0))
                  /\ missing' = MissingFields(b)
                  /\ firstCredentials' = r.creds
                  /\ IF r.ok
                     THEN credentials' = r.creds /\ pc' = "L_browser" /\ UNCHANGED result
                     ELSE Escape(r.msg) /\ UNCHANGED credentials
    /\ UNCHANGED <<flow, env, config, url, otpInputs, lastVerify, preCheck,
                   authPage, agentVerdict, decided,
                   browser,
                   results, attempts, sessions>>

\* getAnchorBrowser asking for the enhanced options at every creation
getAnchorBrowserAlwaysStealth(cfg, extraStealthRequired) ==
    IF cfg.sessionId # ""
    THEN Call("connect", cfg.sessionId, 0, Empty, 0)
    ELSE Call("create", "proxy+captcha_solver+extra_stealth", 0, Empty, 0)

\* getAnchorBrowser (lines 43-75): the provisioner call it makes
getAnchorBrowser(cfg, extraStealthRequired) ==
    IF cfg.sessionId # ""
    THEN Call("connect", cfg.sessionId, 0, Empty, 0)
    ELSE Call("create", IF extraStealthRequired THEN "proxy+captcha_solver+extra_stealth"
                        ELSE "default", 0, Empty, 0)

\* lines 332-345
LinkedinSetupBrowser ==
    /\ pc = "L_browser"
    /\ \/ /\ calls' = Append(calls, Out(getAnchorBrowser(config, credentials.otp = Empty),
                                       "thrown"))
          /\ Escape(Rejection("browser"))
          /\ UNCHANGED browser
       \/ /\ calls' = Append(calls, getAnchorBrowser(config, credentials.otp = Empty))
          /\ browser' = "acquired"
          /\ \/ ReturnNow(FALSE, Msg("Failed to get browser context", <<>>))
             \/ ReturnNow(FALSE, Msg("Failed to get browser page", <<>>))
             \/ pc' = "L_navigate" /\ UNCHANGED result
    /\ UNCHANGED <<flow, env, config, credentials, url, otpInputs, lastVerify,
                   preCheck, authPage, agentVerdict, decided,
                   missing,
                   firstCredentials, results, attempts, sessions>>

\* Step 1, line 351
LinkedinNavigate ==
    /\ pc = "L_navigate"
    /\ \E gotoOk \in BOOLEAN, buttonVisible \in BOOLEAN :
          LET r == navigateToHomepage("login", config.timeoutMs, gotoOk, buttonVisible)
          IN  /\ calls' = calls \o r.calls
              /\ IF r.ok
                 THEN pc' = "L_preCheck" /\ UNCHANGED decided
                 ELSE \E m \in ThrownMsgs("goto") : LinkedinCatch(m)
    /\ UNCHANGED <<flow, env, config, credentials, url, otpInputs, lastVerify,
                   preCheck, authPage, agentVerdict, result,
                   browser, missing,
                   firstCredentials, results, attempts, sessions>>

\* Step 2, lines 354-366
LinkedinPreCheck ==
    /\ pc = "L_preCheck"
    /\ \E waited \in BOOLEAN, u \in LinkedinUrls :
          LET r == verifyLogin(config.timeoutMs, StepVerifyFloorMs, waited, u)
          IN  /\ calls' = calls \o r.calls
              /\ url' = r.url
              /\ lastVerify' = r.how
              /\ preCheck' = r.how
              /\ IF r.ok
                 THEN ReturnInTry(TRUE, Msg("Already authenticated. Landed on /feed.", <<>>),
                                  "L_finally")
                 ELSE pc' = "L_username" /\ UNCHANGED decided
    /\ UNCHANGED <<flow, env, config, credentials, otpInputs, authPage,
                   agentVerdict, result,
                   browser, missing,
                   firstCredentials, results, attempts, sessions>>

\* Step 3, line 369
LinkedinEnterUsername ==
    /\ pc = "L_username"
    /\ LinkedinStep(enterUsernamePrims(credentials.username, config.timeoutMs), "L_password")
    /\ UNCHANGED <<flow, env, config, credentials, url, otpInputs, lastVerify,
                   preCheck, authPage, agentVerdict, result,
                   browser, missing,
                   firstCredentials, results, attempts, sessions>>

\* Step 4, line 373
LinkedinEnterPassword ==
    /\ pc = "L_password"
    /\ LinkedinStep(enterPasswordAndSubmitPrims(credentials.password, config.timeoutMs),
                    "L_otp")
    /\ UNCHANGED <<flow, env, config, credentials, url, otpInputs, lastVerify,
                   preCheck, authPage, agentVerdict, result,
                   browser, missing,
                   firstCredentials, results, attempts, sessions>>

\* LinkedinSkipOtp entering the OTP step although the credentials have no OTP
LinkedinSkipOtpIntoOtp ==
    /\ pc = "L_otp"
    /\ credentials.otp = Empty
    /\ pc' = "L_locateOtp"
    /\ UNCHANGED <<flow, env, config, credentials, calls, url, otpInputs, lastVerify,
                   preCheck, authPage, agentVerdict, decided, result,
                   browser, missing,
                   firstCredentials, results, attempts, sessions>>

\* lines 387-390: no OTP in the credentials
LinkedinSkipOtp ==
    /\ pc = "L_otp"
    /\ credentials.otp = Empty
    /\ pc' = "L_finalVerify"
    /\ UNCHANGED <<flow, env, config, credentials, calls, url, otpInputs, lastVerify,
                   preCheck, authPage, agentVerdict, decided, result,
                   browser, missing,
                   firstCredentials, results, attempts, sessions>>

\* Step 5, lines 376-382
LinkedinRefetchCredentials ==
    /\ pc = "L_otp"
    /\ credentials.otp # Empty
    /\ \/ /\ calls' = Append(calls, Out(Call("retrieveCredentials", config.identityId, 0, Empty, 0), "thrown"))
          /\ \E m \in ThrownMsgs("retrieveCredentials") : LinkedinCatch(m)
          /\ UNCHANGED credentials
       \/ \E b \in Bundles :
              LET r == parseLinkedinCredentials(b)
              IN  /\ calls' = Append(calls, Call("retrieveCredentials", config.identityId, 0, Empty, 0))
                  /\ IF r.ok
                     THEN credentials' = r.creds /\ pc' = "L_locateOtp" /\ UNCHANGED decided
                     ELSE LinkedinCatch(r.msg) /\ UNCHANGED credentials
    /\ UNCHANGED <<flow, env, config, url, otpInputs, lastVerify, preCheck,
                   authPage, agentVerdict, result,
                   browser, missing,
                   firstCredentials, results, attempts, sessions>>

\* Step 6, submitOtpCode lines 269-273
LinkedinLocateOtp ==
    /\ pc = "L_locateOtp"
    /\ \E V \in VisibleSets(singleSelectors), n \in DigitCounts,
          order \in CompletionOrders(Len(singleSelectors)) :
          LET res == PromiseAll(ProbeValues(singleSelectors, V), order)
              r == locateOtpInputs(res, n)
          IN  /\ V # {} => n = 0
              /\ results' = res
              /\ calls' = calls \o r.calls
              /\ otpInputs' = r.inputs
              /\ IF r.inputs = NoInputs
                 THEN LinkedinCatch(Msg("OTP inputs not found", <<>>))
                 ELSE pc' = "L_submitOtp" /\ UNCHANGED decided
    /\ UNCHANGED <<flow, env, config, credentials, url, lastVerify, preCheck,
                   authPage, agentVerdict, result,
                   browser, missing,
                   firstCredentials, attempts, sessions>>

\* submitOtpCode lines 275-282 and 286-305, up to the Promise.all
LinkedinSubmitOtp ==
    /\ pc = "L_submitOtp"
    /\ results' = <<>>
    /\ \E n \in DigitCounts :
          LET prims == IF otpInputs.type = "single"
                       THEN otpSinglePrims(otpInputs, credentials.otp)
                       ELSE otpMultiPrims(otpInputs, credentials.otp, n)
              pre == BeforeRace(prims)
          IN  /\ otpInputs.type = "single" => n = 0
              /\ \E k \in FailPoints(pre) :
                    IF k = 0
                    THEN /\ calls' = calls \o pre \o Raced(prims)
                         /\ otpInputs' = [otpInputs EXCEPT !.count = n]
                         /\ pc' = "L_otpRace"
                         /\ UNCHANGED decided
                    ELSE /\ calls' = calls \o Issued(pre, k)
                         /\ UNCHANGED otpInputs
                         /\ \E m \in ThrownMsgs(pre[k].op) : LinkedinCatch(m)
    /\ UNCHANGED <<flow, env, config, credentials, url, lastVerify,
                   preCheck, authPage, agentVerdict, result,
                   browser, missing,
                   firstCredentials, attempts, sessions>>

\* The calls issued together by a Promise.all that have not settled
Pending == {i \in 1..Len(calls) : calls[i].out = "pending"}

\* The step awaiting a Promise.all, and the step after it
RacePcs == {"L_otpRace", "L_fallbackRace"}
AfterRace(at) == IF at = "L_otpRace" THEN "L_otpVerify" ELSE "L_finalVerify"

\* page.waitForNavigation(...).catch(() => null) settles: the page loaded, or
\* the wait timed out and the catch made it null.  Promise.all resolves when
\* its last promise does.
LinkedinNavigationSettles ==
    /\ pc \in RacePcs
    /\ \E i \in Pending : \E o \in {"resolved", "caught"} :
          /\ calls[i].op = "waitForNavigation"
          /\ calls' = [calls EXCEPT ![i] = Out(@, o)]
          /\ pc' = IF Pending = {i} THEN AfterRace(pc) ELSE pc
    /\ UNCHANGED <<flow, env, config, credentials, url, otpInputs, lastVerify,
                   preCheck, authPage, agentVerdict, decided, result,
                   browser, missing,
                   firstCredentials, results, attempts, sessions>>

\* The key-press or click of the Promise.all settles.  When it rejects,
\* Promise.all rejects at once: out of submitOtpCode for the key-press (the
\* catch clause of the flow takes it), into .catch(() => null) for
\* clickCommonSubmit (lines 284 and 307), after which the flow goes on.
LinkedinSubmitSettles ==
    /\ pc \in RacePcs
    /\ \E i \in Pending :
          /\ calls[i].op # "waitForNavigation"
          /\ \/ /\ calls' = [calls EXCEPT ![i] = Out(@, "resolved")]
                /\ pc' = IF Pending = {i} THEN AfterRace(pc) ELSE pc
                /\ UNCHANGED decided
             \/ /\ pc = "L_otpRace"
                /\ calls' = [calls EXCEPT ![i] = Out(@, "thrown")]
                /\ \E m \in ThrownMsgs(calls[i].op) : LinkedinCatch(m)
             \/ /\ pc = "L_fallbackRace"
                /\ calls' = [calls EXCEPT ![i] = Out(@, "caught")]
                /\ pc' = "L_finalVerify"
                /\ UNCHANGED decided
    /\ UNCHANGED <<flow, env, config, credentials, url, otpInputs, lastVerify,
                   preCheck, authPage, agentVerdict, result,
                   browser, missing,
                   firstCredentials, results, attempts, sessions>>

\* submitOtpCode lines 283 and 306
LinkedinOtpVerify ==
    /\ pc = "L_otpVerify"
    /\ \E waited \in BOOLEAN, u \in LinkedinUrls :
          LET r == verifyLogin(config.timeoutMs, StepVerifyFloorMs, waited, u)
          IN  /\ calls' = calls \o r.calls
              /\ url' = r.url
              /\ lastVerify' = r.how
              /\ pc' = IF r.ok THEN "L_finalVerify" ELSE "L_fallback"
    /\ UNCHANGED <<flow, env, config, credentials, otpInputs, preCheck, authPage,
                   agentVerdict, decided, result,
                   browser, missing,
                   firstCredentials, results, attempts, sessions>>

\* submitOtpCode lines 284 and 307: clickCommonSubmit(page), up to its
\* Promise.all
LinkedinFallbackSubmit ==
    /\ pc = "L_fallback"
    /\ \E V \in VisibleSets(submitSelectors),
          order \in CompletionOrders(Len(submitSelectors)) :
          LET res == PromiseAll(ProbeValues(submitSelectors, V), order)
              r == clickCommonSubmit(res)
          IN  /\ results' = res
              /\ IF r.clicked
                 THEN /\ calls' = calls \o BeforeRace(r.calls) \o Raced(r.calls)
                      /\ pc' = "L_fallbackRace"
                 ELSE /\ calls' = calls \o r.calls
                      /\ pc' = "L_finalVerify"
    /\ UNCHANGED <<flow, env, config, credentials, url, otpInputs, lastVerify,
                   preCheck, authPage, agentVerdict, decided, result,
                   browser, missing,
                   firstCredentials, attempts, sessions>>

\* Step 7, lines 391-415
LinkedinFinalVerify ==
    /\ pc = "L_finalVerify"
    /\ results' = <<>>
    /\ \E waited \in BOOLEAN, u \in LinkedinUrls, finalUrl \in LinkedinUrls :
          LET r == verifyLogin(config.timeoutMs, StepVerifyFloorMs, waited, u)
          IN  /\ lastVerify' = r.how
              /\ IF r.ok
                 THEN /\ calls' = calls \o r.calls
                      /\ url' = r.url
                      /\ ReturnInTry(TRUE, Msg("Logged in to Linkedin as",
                                               <<credentials.username>>), "L_finally")
                 ELSE \* line 400: page.url() is read once more for the message
                      /\ calls' = calls \o r.calls \o <<Call("url", "page", 0, Empty, 0)>>
                      /\ url' = finalUrl
                      /\ ReturnInTry(FALSE,
                             Msg("Login flow completed but Linkedin Feed URL not confirmed. Current URL:",
                                 <<finalUrl>>), "L_finally")
    /\ UNCHANGED <<flow, env, config, credentials, otpInputs, preCheck, authPage,
                   agentVerdict, result,
                   browser, missing,
                   firstCredentials, attempts, sessions>>

\* finally { await browser.close(); } (lines 423-425): a rejection of close
\* replaces the completion of the try/catch
closeBrowser(outcome, closeOk, m) == IF closeOk THEN outcome ELSE Threw(m)

LinkedinFinally ==
    /\ pc = "L_finally"
    /\ results' = <<>>
    /\ \E closeOk \in BOOLEAN :
          /\ calls' = Append(calls, Out(Call("close", "browser", 0, Empty, 0),
                                       IF closeOk THEN "resolved" ELSE "thrown"))
          /\ result' = closeBrowser(decided, closeOk, Rejection("close"))
    /\ pc' = "done"
    /\ UNCHANGED <<flow, env, config, credentials, url, otpInputs, lastVerify,
                   preCheck, authPage, agentVerdict, decided,
                   browser, missing,
                   firstCredentials, attempts, sessions>>

LinkedinNext ==
    \/ LinkedinGetConfig
    \/ LinkedinFetchCredentials
    \/ LinkedinSetupBrowser
    \/ LinkedinNavigate
    \/ LinkedinPreCheck
    \/ LinkedinEnterUsername
    \/ LinkedinEnterPassword
    \/ LinkedinSkipOtp
    \/ LinkedinRefetchCredentials
    \/ LinkedinLocateOtp
    \/ LinkedinSubmitOtp
    \/ LinkedinNavigationSettles
    \/ LinkedinSubmitSettles
    \/ LinkedinOtpVerify
    \/ LinkedinFallbackSubmit
    \/ LinkedinFinalVerify
    \/ LinkedinFinally

-----------------------------------------------------------------------------
(* Step functions of comply-advantage/mesh/auth/basic-login.ts *)

CookieBanner == "#notice"
AcceptAllButton == "button[title=Accept all]"
LoginModal == "#mesh-li-modal-button, #loginModal"
MeshButton == "#mesh-li-modal-button"
OrganizationField == "#organizationName"
MeshUsernameField == "#username"
MeshPasswordField == "#password"

\* dismissCookieBanner: every rejection is swallowed by its try/catch
dismissCookieBannerPrims(bannerVisible, acceptVisible) ==
    <<Call("isVisible", CookieBanner, 0, Empty, BannerTimeoutMs)>>
    \o (IF bannerVisible
        THEN <<Call("isVisible", AcceptAllButton, 0, Empty, 0)>>
             \o (IF acceptVisible
                 THEN <<Call("click", AcceptAllButton, 0, Empty, 0)>>
                 ELSE <<>>)
        ELSE <<>>)

\* clickWithFallback: failAt is the rejecting call among waitForVisible (1)
\* and scrollToTop (2), which nothing inside catches; 0 when both resolve.
\* [calls, threw, clicked]
clickWithFallback(selector, timeoutMs, failAt, clickOk, jsClickOk) ==
    LET pre == << Call("waitForSelector", selector, 0, Empty, timeoutMs),
                  Call("evaluate", "window.scrollTo", 0, Empty, 0) >>
        click == Call("click", selector, 0, Empty, timeoutMs)
    IN  IF failAt # 0
        THEN [calls |-> Issued(pre, failAt), threw |-> TRUE, clicked |-> FALSE]
        ELSE IF clickOk
        THEN [calls |-> pre \o <<click>>, threw |-> FALSE, clicked |-> TRUE]
        ELSE [calls |-> pre \o << Out(click, "caught"),
                                  Out(Call("evaluate", selector, 0, <<"node.click">>, 0),
                                      IF jsClickOk THEN "resolved" ELSE "caught") >>,
              threw |-> FALSE, clicked |-> jsClickOk]

\* openLoginModal: [calls, threw, opened]
openLoginModal(timeoutMs, failAt, clickOk, jsClickOk, modalVisible) ==
    LET c == clickWithFallback(LoginNavButton, timeoutMs, failAt, clickOk, jsClickOk)
        direct == Call("goto", "mesh", 0, Empty, timeoutMs)
    IN  IF c.threw
        THEN [calls |-> c.calls, threw |-> TRUE, opened |-> FALSE]
        ELSE IF ~c.clicked
        THEN [calls |-> Append(c.calls, direct), threw |-> FALSE, opened |-> FALSE]
        ELSE IF ~modalVisible
        THEN [calls |-> c.calls \o <<Call("isVisible", LoginModal, 0, Empty, 0), direct>>,
              threw |-> FALSE, opened |-> FALSE]
        ELSE [calls |-> Append(c.calls, Call("isVisible", LoginModal, 0, Empty, 0)),
              threw |-> FALSE, opened |-> TRUE]

\* context.pages().find((p) => regex.test(p.url())) || page, over the URLs of
\* the open pages, the original page first: the index chosen
FindAuthPage(pageUrls) ==
    IF \E i \in 1..Len(pageUrls) : IsAuthProviderUrl(pageUrls[i])
    THEN CHOOSE i \in 1..Len(pageUrls) :
             IsAuthProviderUrl(pageUrls[i]) /\ \A j \in 1..(i - 1) : ~IsAuthProviderUrl(pageUrls[j])
    ELSE 1

\* selectMeshLoginOption.  others: the URLs of the pages of the context
\* other than page when the function starts; later: the same when the last
\* fallback looks.  [calls, threw, page]
selectMeshLoginOption(timeoutMs, others, meshVisible, opensOk, newUrl, pageUrl, later) ==
    LET probe == Call("isVisible", MeshButton, 0, Empty, 0)
    IN  IF others # <<>>
        THEN [calls |-> <<>>, threw |-> FALSE,
              page |-> [how |-> "other", url |-> others[1]]]
        ELSE IF meshVisible
        THEN [calls |-> << probe,
                           Out(Call("waitForEvent", "page", 0, Empty, timeoutMs),
                               IF opensOk THEN "resolved" ELSE "thrown"),
                           Call("click", MeshButton, 0, Empty, 0) >>,
              threw |-> ~opensOk,
              page |-> IF opensOk THEN [how |-> "new", url |-> newUrl] ELSE NoPage]
        ELSE LET all == <<pageUrl>> \o later
                 i == FindAuthPage(all)
             IN  [calls |-> <<probe>>, threw |-> FALSE,
                  page |-> [how |-> IF i = 1 THEN "original" ELSE "authUrl", url |-> all[i]]]

\* waitForAuth0Page: the rejection of waitForURL is swallowed
waitForAuth0PagePrims(timeoutMs) ==
    << Call("waitForURL", Auth0Pattern, 0, Empty, timeoutMs),
       Call("url", "page", 0, Empty, 0) >>

\* enterOrganization: every rejection is swallowed by its try/catch
enterOrganizationPrims(organization) ==
    << Call("waitForSelector", OrganizationField, 0, Empty, OrganizationTimeoutMs),
       Call("fill", OrganizationField, 0, organization, 0),
       Call("press", OrganizationField, 0, <<"Enter">>, 0) >>

\* enterUsername
meshEnterUsernamePrims(username, timeoutMs) ==
    << Call("waitForSelector", MeshUsernameField, 0, Empty, timeoutMs),
       Call("fill", MeshUsernameField, 0, username, 0),
       Call("press", MeshUsernameField, 0, <<"Enter">>, 0) >>

\* enterPassword
meshEnterPasswordPrims(password, timeoutMs) ==
    << Call("waitForSelector", MeshPasswordField, 0, Empty, timeoutMs),
       Call("fill", MeshPasswordField, 0, password, 0),
       Call("press", MeshPasswordField, 0, <<"Enter">>, 0) >>

\* verifyMeshLogin: [calls, ok, url, how]
verifyMeshLogin(timeoutMs, waited, u) ==
    LET wait == Call("waitForURL", MeshPattern, 0, Empty, Max(timeoutMs, VerifyFloorMs))
    IN  IF waited
        THEN [calls |-> <<wait>>, ok |-> TRUE, url |-> "mesh", how |-> "wait"]
        ELSE [calls |-> <<Out(wait, "caught"), Call("url", "page", 0, Empty, 0)>>,
              ok |-> OnMesh(u), url |-> u,
              how |-> IF OnMesh(u) THEN "recheck" ELSE "timeout"]

\* getAnchorBrowser of the Mesh flow (lines 42-55)
meshGetAnchorBrowser(cfg) ==
    IF cfg.sessionId # ""
    THEN Call("connect", cfg.sessionId, 0, Empty, 0)
    ELSE Call("create", "default", 0, Empty, 0)

-----------------------------------------------------------------------------
(* LoginToComplyAdvantageMesh *)

\* lines 354-363
MeshValidate ==
    /\ pc = "C_validate"
    /\ LET r == validateRequiredInputs(env)
       IN  IF r.ok
           THEN config' = getConfig(env).config /\ pc' = "C_fetch" /\ UNCHANGED result
           ELSE ReturnNow(FALSE, OrDefault(r.msg, "Missing required inputs"))
                /\ UNCHANGED config
    /\ UNCHANGED <<flow, env, credentials, calls, url, otpInputs, lastVerify,
                   preCheck, authPage, agentVerdict, decided,
                   browser, missing,
                   firstCredentials, results, attempts, sessions>>

\* lines 365-382
MeshFetchCredentials ==
    /\ pc = "C_fetch"
    /\ \/ \E m \in ThrownMsgs("retrieveCredentials") :
              /\ calls' = Append(calls, Out(Call("retrieveCredentials", config.identityId, 0, Empty, 0), "caught"))
              /\ ReturnNow(FALSE, OrDefault(m, "Failed to fetch credentials"))
              /\ UNCHANGED <<credentials, missing, firstCredentials>>
       \/ \E b \in Bundles :
              LET r == parseComplyAdvantageCredentials(b)
              IN  /\ calls' = Append(calls, Call("retrieveCredentials", config.identityId, 0, Empty, 0))
                  /\ missing' = MissingFields(b)
                  /\ firstCredentials' = r.creds
                  /\ IF r.ok
                     THEN credentials' = r.creds /\ pc' = "C_browser" /\ UNCHANGED result
                     ELSE ReturnNow(FALSE, OrDefault(r.msg, "Failed to fetch credentials"))
                          /\ UNCHANGED credentials
    /\ UNCHANGED <<flow, env, config, url, otpInputs, lastVerify, preCheck,
                   authPage, agentVerdict, decided,
                   browser,
                   results, attempts, sessions>>

\* lines 384-397
MeshSetupBrowser ==
    /\ pc = "C_browser"
    /\ \/ /\ calls' = Append(calls, Out(meshGetAnchorBrowser(config), "thrown"))
          /\ Escape(Rejection("browser"))
          /\ UNCHANGED browser
       \/ /\ calls' = Append(calls, meshGetAnchorBrowser(config))
          /\ browser' = "acquired"
          /\ \/ ReturnNow(FALSE, Msg("Failed to get browser context", <<>>))
             \/ ReturnNow(FALSE, Msg("Failed to get browser page", <<>>))
             \/ pc' = "C_navigate" /\ UNCHANGED result
    /\ UNCHANGED <<flow, env, config, credentials, url, otpInputs, lastVerify,
                   preCheck, authPage, agentVerdict, decided,
                   missing,
                   firstCredentials, results, attempts, sessions>>

\* Step 1, line 403
MeshNavigate ==
    /\ pc = "C_navigate"
    /\ \E gotoOk \in BOOLEAN, buttonVisible \in BOOLEAN :
          LET r == navigateToHomepage("home", config.timeoutMs, gotoOk, buttonVisible)
          IN  /\ calls' = calls \o r.calls
              /\ IF r.ok
                 THEN pc' = "C_cookie" /\ UNCHANGED decided
                 ELSE \E m \in ThrownMsgs("goto") : MeshCatch(m)
    /\ UNCHANGED <<flow, env, config, credentials, url, otpInputs, lastVerify,
                   preCheck, authPage, agentVerdict, result,
                   browser, missing,
                   firstCredentials, results, attempts, sessions>>

\* Step 2, line 407
MeshDismissCookieBanner ==
    /\ pc = "C_cookie"
    /\ \E bannerVisible \in BOOLEAN, acceptVisible \in BOOLEAN :
          OptionalStep(dismissCookieBannerPrims(bannerVisible, acceptVisible), "C_openModal")
    /\ UNCHANGED <<flow, env, config, credentials, url, otpInputs, lastVerify,
                   preCheck, authPage, agentVerdict, decided, result,
                   browser, missing,
                   firstCredentials, results, attempts, sessions>>

\* Step 3, line 411
MeshOpenLoginModal ==
    /\ pc = "C_openModal"
    /\ \E failAt \in 0..2, clickOk \in BOOLEAN, jsClickOk \in BOOLEAN,
          modalVisible \in BOOLEAN :
          LET r == openLoginModal(config.timeoutMs, failAt, clickOk, jsClickOk, modalVisible)
          IN  /\ calls' = calls \o r.calls
              /\ IF r.threw
                 THEN \E m \in ThrownMsgs(r.calls[Len(r.calls)].op) : MeshCatch(m)
                 ELSE pc' = "C_selectMesh" /\ UNCHANGED decided
    /\ UNCHANGED <<flow, env, config, credentials, url, otpInputs, lastVerify,
                   preCheck, authPage, agentVerdict, result,
                   browser, missing,
                   firstCredentials, results, attempts, sessions>>

\* Step 4, line 415
MeshSelectLoginOption ==
    /\ pc = "C_selectMesh"
    /\ \E others \in SeqsUpTo(OtherPageUrls, MaxOtherPages), meshVisible \in BOOLEAN,
          opensOk \in BOOLEAN, newUrl \in NewPageUrls, pageUrl \in OriginalPageUrls,
          later \in SeqsUpTo(OtherPageUrls, MaxOtherPages) :
          LET r == selectMeshLoginOption(config.timeoutMs, others, meshVisible, opensOk,
                                         newUrl, pageUrl, later)
          IN  /\ calls' = calls \o r.calls
              /\ authPage' = r.page
              /\ IF r.threw
                 THEN \E m \in ThrownMsgs("waitForEvent") : MeshCatch(m)
                 ELSE pc' = "C_waitAuth0" /\ UNCHANGED decided
    /\ UNCHANGED <<flow, env, config, credentials, url, otpInputs, lastVerify,
                   preCheck, agentVerdict, result,
                   browser, missing,
                   firstCredentials, results, attempts, sessions>>

\* Step 5, line 420
MeshWaitForAuth0 ==
    /\ pc = "C_waitAuth0"
    /\ calls' = calls \o waitForAuth0PagePrims(config.timeoutMs)
    /\ pc' = "C_organization"
    /\ UNCHANGED <<flow, env, config, credentials, url, otpInputs, lastVerify,
                   preCheck, authPage, agentVerdict, decided, result,
                   browser, missing,
                   firstCredentials, results, attempts, sessions>>

\* Step 6, line 424
MeshEnterOrganization ==
    /\ pc = "C_organization"
    /\ OptionalStep(enterOrganizationPrims(credentials.organization), "C_username")
    /\ UNCHANGED <<flow, env, config, credentials, url, otpInputs, lastVerify,
                   preCheck, authPage, agentVerdict, decided, result,
                   browser, missing,
                   firstCredentials, results, attempts, sessions>>

\* Step 7, line 428
MeshEnterUsername ==
    /\ pc = "C_username"
    /\ MeshStep(meshEnterUsernamePrims(credentials.username, config.timeoutMs), "C_password")
    /\ UNCHANGED <<flow, env, config, credentials, url, otpInputs, lastVerify,
                   preCheck, authPage, agentVerdict, result,
                   browser, missing,
                   firstCredentials, results, attempts, sessions>>

\* Step 8, line 432
MeshEnterPassword ==
    /\ pc = "C_password"
    /\ MeshStep(meshEnterPasswordPrims(credentials.password, config.timeoutMs), "C_verify")
    /\ UNCHANGED <<flow, env, config, credentials, url, otpInputs, lastVerify,
                   preCheck, authPage, agentVerdict, result,
                   browser, missing,
                   firstCredentials, results, attempts, sessions>>

\* Step 9, lines 435-454
MeshVerify ==
    /\ pc = "C_verify"
    /\ \E waited \in BOOLEAN, u \in MeshEndUrls, finalUrl \in MeshEndUrls :
          LET r == verifyMeshLogin(config.timeoutMs, waited, u)
          IN  /\ lastVerify' = r.how
              /\ IF r.ok
                 THEN /\ calls' = calls \o r.calls
                      /\ url' = r.url
                      /\ ReturnInTry(TRUE, Msg("Logged in to ComplyAdvantage Mesh as",
                                               <<credentials.username, credentials.organization>>),
                                     "C_finally")
                 ELSE \* line 439: authPage.url() is read once more for the message
                      /\ calls' = calls \o r.calls \o <<Call("url", "page", 0, Empty, 0)>>
                      /\ url' = finalUrl
                      /\ ReturnInTry(FALSE,
                             Msg("Login flow completed but Mesh URL not confirmed. Current URL:",
                                 <<finalUrl>>), "C_finally")
    /\ UNCHANGED <<flow, env, config, credentials, otpInputs, preCheck, authPage,
                   agentVerdict, result,
                   browser, missing,
                   firstCredentials, results, attempts, sessions>>

\* finally { await browser.close(); } (lines 462-464)
MeshFinally ==
    /\ pc = "C_finally"
    /\ \E closeOk \in BOOLEAN :
          /\ calls' = Append(calls, Out(Call("close", "browser", 0, Empty, 0),
                                       IF closeOk THEN "resolved" ELSE "thrown"))
          /\ result' = closeBrowser(decided, closeOk, Rejection("close"))
    /\ pc' = "done"
    /\ UNCHANGED <<flow, env, config, credentials, url, otpInputs, lastVerify,
                   preCheck, authPage, agentVerdict, decided,
                   browser, missing,
                   firstCredentials, results, attempts, sessions>>

MeshNext ==
    \/ MeshValidate
    \/ MeshFetchCredentials
    \/ MeshSetupBrowser
    \/ MeshNavigate
    \/ MeshDismissCookieBanner
    \/ MeshOpenLoginModal
    \/ MeshSelectLoginOption
    \/ MeshWaitForAuth0
    \/ MeshEnterOrganization
    \/ MeshEnterUsername
    \/ MeshEnterPassword
    \/ MeshVerify
    \/ MeshFinally

-----------------------------------------------------------------------------
(* loginWithAgent: the whole body is inside try/catch (lines 54-76) *)

AgentCatch(m) == ReturnNow(FALSE, OrDefault(m, "Agent-based login failed"))

\* What the agent may answer under RUN_AGENTIC_VALIDATION_PROMPT: without a
\* submit action it must answer "attempt_failed"
AgentAnswers(submitted) ==
    IF submitted THEN {"true", "false", "attempt_failed"} ELSE {"attempt_failed"}

\* line 55
AgentGetConfig ==
    /\ pc = "A_getConfig"
    /\ LET r == getAgentConfig(env)
       IN  IF r.ok
           THEN config' = r.config /\ pc' = "A_fetch" /\ UNCHANGED result
           ELSE AgentCatch(r.msg) /\ UNCHANGED config
    /\ UNCHANGED <<flow, env, credentials, calls, url, otpInputs, lastVerify,
                   preCheck, authPage, agentVerdict, decided,
                   browser, missing,
                   firstCredentials, results, attempts, sessions>>

\* line 58
AgentFetchCredentials ==
    /\ pc = "A_fetch"
    /\ \/ /\ calls' = Append(calls, Out(Call("retrieveCredentials", config.identityId, 0, Empty, 0), "thrown"))
          /\ \E m \in ThrownMsgs("retrieveCredentials") : AgentCatch(m)
       \/ /\ calls' = Append(calls, Call("retrieveCredentials", config.identityId, 0, Empty, 0))
          /\ pc' = "A_browser"
          /\ UNCHANGED result
    /\ UNCHANGED <<flow, env, config, credentials, url, otpInputs, lastVerify,
                   preCheck, authPage, agentVerdict, decided,
                   browser, missing,
                   firstCredentials, results, attempts, sessions>>

\* setupBrowser (lines 45-51), line 60
AgentSetupBrowser ==
    /\ pc = "A_browser"
    /\ \/ /\ calls' = Append(calls, Out(Call("connect", config.sessionId, 0, Empty, 0),
                                       "thrown"))
          /\ \E m \in ThrownMsgs("browser") : AgentCatch(m)
          /\ UNCHANGED browser
       \/ /\ calls' = Append(calls, Call("connect", config.sessionId, 0, Empty, 0))
          /\ browser' = "acquired"
          /\ pc' = "A_task"
          /\ UNCHANGED result
    /\ UNCHANGED <<flow, env, config, credentials, url, otpInputs, lastVerify,
                   preCheck, authPage, agentVerdict, decided,
                   missing,
                   firstCredentials, results, attempts, sessions>>

\* lines 62-69: the answer of the task is dropped
AgentTask ==
    /\ pc = "A_task"
    /\ \/ /\ calls' = Append(calls, Out(Call("agent.task", config.sessionId, 0, Empty, 0),
                                       "thrown"))
          /\ \E m \in ThrownMsgs("agent.task") : AgentCatch(m)
          /\ UNCHANGED agentVerdict
       \/ \E submitted \in BOOLEAN : \E answer \in AgentAnswers(submitted) :
              /\ calls' = Append(calls, Call("agent.task", config.sessionId, 0, Empty, 0))
              /\ agentVerdict' = [answer |-> answer, submitted |-> submitted]
              /\ ReturnNow(TRUE, Msg("Agent-based login placeholder", <<>>))
    /\ UNCHANGED <<flow, env, config, credentials, url, otpInputs, lastVerify,
                   preCheck, authPage, decided,
                   browser, missing,
                   firstCredentials, results, attempts, sessions>>

AgentNext ==
    \/ AgentGetConfig
    \/ AgentFetchCredentials
    \/ AgentSetupBrowser
    \/ AgentTask

Next == LinkedinNext \/ MeshNext \/ AgentNext

Spec == Init /\ [][Next]_vars

-----------------------------------------------------------------------------
(* What the claims speak of *)

Done == pc = "done"
Success == result.kind = "returned" /\ result.success
AttemptFailed == result.kind = "returned" /\ ~result.success

Range(f) == {f[i] : i \in DOMAIN f}

PasswordFields == {PasswordField, MeshPasswordField}
CredentialFields == {UsernameField, PasswordField, MeshUsernameField, MeshPasswordField}
OtpFields == Range(singleSelectors) \cup {OtpDigitFields}
SubmitControls == Range(submitSelectors)

IsClose(c) == c.op = "close"
IsAcquire(c) == c.op \in {"connect", "create"}
IsNavigation(c) == c.op = "goto"
IsPasswordSubmit(c) == c.op = "press" /\ c.target \in PasswordFields /\ c.arg = <<"Enter">>
IsOtpSubmit(c) == c.op = "press" /\ c.target \in OtpFields /\ c.arg = <<"Enter">>
IsFallbackClick(c) == c.op = "click" /\ c.target \in SubmitControls
IsSubmitAction(c) == (c.op = "press" /\ c.arg = <<"Enter">>) \/ IsFallbackClick(c)
TouchesCredentialField(c) ==
    c.op \in {"fill", "press", "type"} /\ c.target \in CredentialFields

SubmitPerformed ==
    (\E i \in 1..Len(calls) : IsSubmitAction(calls[i])) \/ agentVerdict.submitted

\* locateOtpInputs ran and found neither a combined field nor six digit fields
OtpInputsNotLocated ==
    /\ \E i \in 1..Len(calls) : calls[i] = Call("count", OtpDigitFields, 0, Empty, 0)
    /\ otpInputs = NoInputs

\* a message "Missing required credentials. Found: ..." says of field f that
\* it was not found
NamesMissing(m, f) ==
    \E i \in 1..(Len(m.args) - 1) : m.args[i] = f /\ m.args[i + 1] = "false"

\* a required input of the flow is absent, empty or blank in the environment
RequiredConfigMissing ==
    \/ ~RequiredString(env.identityId)
    \/ trim(env.identityId) = ""
    \/ flow = "comply" /\ ~RequiredString(env.apiKey)
    \/ flow = "agent" /\ ~RequiredString(env.sessionId)

-----------------------------------------------------------------------------
(* Claims *)

\* C1: for every entry point and every failure of a collaborator, the
\* invocation ends by returning {success, message}; no exception escapes to
\* the caller.
NoExceptionEscapes == result.kind # "threw"

\* C2: once connect or create has returned, browser close is invoked exactly
\* once before the invocation ends, on every exit path (never twice, and
\* once when the invocation has ended).
ClosedExactlyOnce ==
    /\ CountCalls(calls, IsClose) <= 1
    /\ (Done /\ browser = "acquired") => CountCalls(calls, IsClose) = 1

\* C3: in any attempt the Enter key-press on the password field is issued at
\* most once and the Enter key-press on an OTP field at most once; what
\* follows the OTP submit is at most one click, on a generic submit control,
\* which is none of the OTP fields, and never another key-press.
AtMostOneSubmit ==
    /\ CountCalls(calls, IsPasswordSubmit) <= 1
    /\ CountCalls(calls, IsOtpSubmit) <= 1
    /\ CountCalls(calls, IsFallbackClick) <= 1
    /\ \A i \in 1..Len(calls) : \A j \in (i + 1)..Len(calls) :
          (IsOtpSubmit(calls[i]) /\ calls[j].op \in {"press", "click", "fill", "type"})
              => /\ IsFallbackClick(calls[j])
                 /\ calls[j].target \notin OtpFields
                 /\ calls[j].target # calls[i].target

\* C3 witness: an attempt has ended in which the password was submitted, the
\* OTP was submitted, the verification after it failed and the fallback
\* click was issued.
FallbackClickAfterOtpSubmit ==
    /\ Done
    /\ CountCalls(calls, IsPasswordSubmit) = 1
    /\ \E i \in 1..Len(calls) : \E j \in (i + 1)..Len(calls) :
          IsOtpSubmit(calls[i]) /\ IsFallbackClick(calls[j])

\* C4: in every attempt of every flow, if no submit action was performed the
\* returned outcome is not Success.
NoSubmitNoSuccess == Success => SubmitPerformed

\* C5: if the authenticated-area pattern matches at the pre-login check, the
\* invocation returns Success and no fill or key-press was issued on the
\* username or password field.
PreCheckShortCircuits ==
    (Done /\ preCheck \in {"wait", "recheck"})
        => /\ Success
           /\ \A i \in 1..Len(calls) : ~TouchesCredentialField(calls[i])

\* C6: for every bundle that lacks a required field, the entry point returns
\* AttemptFailed with a message naming the missing fields, no session is
\* connected or created and no navigation is issued.
MissingFieldIsReported ==
    (Done /\ missing # {})
        => /\ AttemptFailed
           /\ \A f \in missing : NamesMissing(result.message, f)
           /\ CountCalls(calls, IsAcquire) = 0
           /\ CountCalls(calls, IsNavigation) = 0

\* C7: when a required input is missing or invalid, the attempt returns
\* AttemptFailed before any call on the credential provider, the session
\* provisioner or the page.
ConfigFailsBeforeActivity ==
    (Done /\ RequiredConfigMissing) => (AttemptFailed /\ calls = <<>>)

\* C8: when browser close fails, the failure is not re-raised and the
\* outcome the flow had decided is what the caller gets.
CloseFailureKeepsOutcome ==
    (Done /\ decided.kind # "none") => result = decided

\* C9: an attempt returns Success only if the authenticated-area pattern was
\* seen to match, by the URL wait or by the recheck after its timeout.
SuccessOnlyIfPatternObserved == Success => lastVerify \in {"wait", "recheck"}

\* C10: when user name and password were entered, the bundle has an OTP and
\* no OTP input is located, the attempt returns AttemptFailed("OTP inputs
\* not found"), no OTP submit and no fallback click is issued and the
\* session is closed once.
OtpInputsNotFoundOutcome ==
    (Done /\ OtpInputsNotLocated)
        => /\ result = Returned(FALSE, Msg("OTP inputs not found", <<>>))
           /\ CountCalls(calls, IsOtpSubmit) = 0
           /\ CountCalls(calls, IsFallbackClick) = 0
           /\ CountCalls(calls, IsClose) = 1

-----------------------------------------------------------------------------
(* Scenarios *)

\* no call rejected out of the step that awaited it, browser close included
NoCallThrown == \A i \in 1..Len(calls) : calls[i].out # "thrown"

\* the waitForURL of verifyLogin / verifyMeshLogin
IsUrlWait(c) == c.op = "waitForURL" /\ c.target \in {FeedPattern, MeshPattern}

\* The terminal verification ran, its wait timed out and the recheck of the
\* current URL failed: the last URL wait timed out and only reads of the URL
\* (and browser close) follow it.  After the pre-login check and after the
\* verification that follows the OTP submit the flow issues other calls.
TerminalVerifyFailed ==
    /\ lastVerify = "timeout"
    /\ \E i \in 1..Len(calls) :
          /\ IsUrlWait(calls[i])
          /\ calls[i].out = "caught"
          /\ \A j \in (i + 1)..Len(calls) : calls[j].op \in {"url", "close"}

\* C11: when no step fails, the terminal wait for the authenticated-area URL
\* times out and the recheck of the current URL fails too, the attempt
\* returns AttemptFailed and its message carries the URL observed last.
UnconfirmedUrlIsReported ==
    (Done /\ TerminalVerifyFailed /\ NoCallThrown)
        => /\ AttemptFailed
           /\ url \in Range(result.message.args)

\* C11 witness: an attempt in which the password was submitted ended that way
TerminalUrlNotConfirmed ==
    /\ Done
    /\ TerminalVerifyFailed
    /\ NoCallThrown
    /\ CountCalls(calls, IsPasswordSubmit) = 1
    /\ AttemptFailed

\* Scenario A of the specification: the bundle is one username_password record
ScenarioA == <<UsernamePassword(U1, P1)>>

\* a call of the second-factor step: the second fetch of the credentials, a
\* probe, fill or key-press on an OTP input, a probe or click on a submit control
IsOtpStepCall(c) == c.target \in OtpFields \cup SubmitControls

\* C12: with the credentials of the bundle {username_password("u", "p")}, when
\* the pre-login check fails, no step fails and the terminal verification
\* matches, the attempt returns Success, its message carries "u", the
\* credentials were fetched once and no call of the OTP step was issued.
PasswordOnlyLoginSucceeds ==
    LET r == parseLinkedinCredentials(ScenarioA)
    IN  /\ r.ok
        /\ r.creds.username = U1
        /\ r.creds.otp = Empty
        /\ (/\ Done
            /\ firstCredentials = r.creds
            /\ preCheck = "timeout"
            /\ NoCallThrown
            /\ lastVerify \in {"wait", "recheck"})
               => /\ Success
                  /\ U1 \in Range(result.message.args)
                  /\ \A i \in 1..Len(calls) : ~IsOtpStepCall(calls[i])
                  /\ Cardinality({i \in 1..Len(calls) : calls[i].op = "retrieveCredentials"}) = 1

\* C12 witness: such an attempt has ended with Success
ScenarioASucceeded ==
    /\ Done
    /\ firstCredentials = parseLinkedinCredentials(ScenarioA).creds
    /\ preCheck = "timeout"
    /\ NoCallThrown
    /\ CountCalls(calls, IsPasswordSubmit) = 1
    /\ Success

-----------------------------------------------------------------------------
(* The second factor *)

\* the calls of submitOtpCode's multi branch were issued, the last of them
\* together and not yet settled
MultiFieldSubmitted == pc = "L_otpRace" /\ otpInputs.type = "multi"

-----------------------------------------------------------------------------
(* Selector fallback *)

\* The selector of the list sels that comes first among those the results
\* array of the probes reports visible
EarliestVisible(sels, res) ==
    LET V == {i \in 1..Len(sels) : sels[i] \in Range(res)}
    IN  sels[FirstVisible(V)]

\* the calls at positions from..(from + Len(sels) - 1) probe the selectors of
\* the list, each once, in the order of the list
ProbedAll(sels, from) ==
    /\ from >= 1
    /\ \A i \in 1..Len(sels) :
          /\ calls[from + i - 1].op = "isVisible"
          /\ calls[from + i - 1].target = sels[i]

\* a combined code field was located and nothing done with it yet
SingleFieldLocated == pc = "L_submitOtp" /\ otpInputs.type = "single"
\* a submit control was located and its click issued
SubmitControlLocated == pc = "L_fallbackRace"

\* C14: in the location of the combined code field and in the location of
\* the generic submit control, every candidate selector is probed, and the
\* selector chosen is the one that comes first in the declared list among
\* those reported visible, whatever the order in which the probes complete.
EarliestVisibleSelectorChosen ==
    /\ pc \in {"L_locateOtp", "L_fallback"} =>
          \A sels \in {singleSelectors, submitSelectors} :
            \A V \in VisibleSets(sels) :
              \A o1, o2 \in CompletionOrders(Len(sels)) :
                 /\ find(PromiseAll(ProbeValues(sels, V), o1)) = FirstVisible(V)
                 /\ PromiseAll(ProbeValues(sels, V), o1) = PromiseAll(ProbeValues(sels, V), o2)
    /\ SingleFieldLocated =>
          /\ ProbedAll(singleSelectors, Len(calls) - Len(singleSelectors) + 1)
          /\ otpInputs.selector = EarliestVisible(singleSelectors, results)
    /\ SubmitControlLocated =>
          /\ ProbedAll(submitSelectors, Len(calls) - Len(submitSelectors) - 1)
          /\ calls[Len(calls)].op = "click"
          /\ calls[Len(calls)].target = EarliestVisible(submitSelectors, results)

\* C14 witness: two submit controls were visible and the one earlier in the
\* list was clicked
TwoVisibleEarlierChosen ==
    /\ SubmitControlLocated
    /\ Cardinality({i \in 1..Len(results) : results[i] # Null}) = 2
    /\ calls[Len(calls)].target = EarliestVisible(submitSelectors, results)
    /\ calls[Len(calls)].target # submitSelectors[Len(submitSelectors)]

-----------------------------------------------------------------------------
(* Several attempts at once.  Each attempt reads process.env when it is      *)
(* called, before its first await; attempts holds where each attempt is and  *)
(* the session it drives, sessions the sessions that are open at the         *)
(* provider.  The variables of the single invocation stay as they are.       *)

MaxAttempts == 2
MaxPageActions == 2

AttemptIds == 1..MaxAttempts

\* ANCHOR_SESSION_ID as an attempt may find it
SuppliedSessionIds == {Unset, "sess-1", "sess-2"}
\* the sessions that exist before any attempt runs
ExistingSessions == {"sess-1", "sess-2"}
\* the session client.browser.create makes for attempt a
CreatedSession(a) == "created-" \o ToString(a)

NoSession == ""
IdleAttempt ==
    [at |-> "idle", flow |-> "none", sessionId |-> "", session |-> NoSession, acted |-> 0]

\* the session an attempt that is past its session acquisition and before
\* the end of its browser.close() is driving
Driving(a) == attempts[a].at \in {"driving", "closing"}

invocationVars ==
    <<flow, env, pc, config, credentials, calls, url, otpInputs, lastVerify,
      preCheck, authPage, agentVerdict, decided, result, browser, missing,
      firstCredentials, results>>

ConcurrentInit ==
    /\ flow = "linkedin"
    /\ env = [identityId |-> "id-1", sessionId |-> Unset, timeoutMs |-> Unset,
              apiKey |-> Unset]
    /\ pc = "concurrent"
    /\ config = NoConfig
    /\ credentials = NoCredentials
    /\ calls = <<>>
    /\ url = "about:blank"
    /\ otpInputs = NoInputs
    /\ lastVerify = "none"
    /\ preCheck = "none"
    /\ authPage = NoPage
    /\ agentVerdict = NoVerdict
    /\ browser = "none"
    /\ missing = {}
    /\ firstCredentials = NoCredentials
    /\ results = <<>>
    /\ decided = NoOutcome
    /\ result = NoOutcome
    /\ attempts = [a \in AttemptIds |-> IdleAttempt]
    /\ sessions = ExistingSessions

\* getConfig() of an attempt: the agent flow requires the session id
AttemptBegins(a) ==
    /\ attempts[a].at = "idle"
    /\ \E f \in Flows, sid \in SuppliedSessionIds :
          LET e == [identityId |-> "id-1", sessionId |-> sid, timeoutMs |-> Unset,
                    apiKey |-> "key-1"]
              c == IF f = "agent" THEN getAgentConfig(e) ELSE getConfig(e)
          IN  attempts' = [attempts EXCEPT ![a] =
                              IF c.ok
                              THEN [@ EXCEPT !.at = "configured", !.flow = f,
                                             !.sessionId = c.config.sessionId]
                              ELSE [@ EXCEPT !.at = "ended", !.flow = f]]
    /\ UNCHANGED sessions
    /\ UNCHANGED invocationVars

\* getAnchorBrowser / setupBrowser: connect to the session the configuration
\* names, which rejects when that session is not open; create one otherwise
AttemptAcquires(a) ==
    /\ attempts[a].at = "configured"
    /\ LET c == IF attempts[a].flow = "agent"
                THEN Call("connect", attempts[a].sessionId, 0, Empty, 0)
                ELSE getAnchorBrowser([NoConfig EXCEPT !.sessionId = attempts[a].sessionId],
                                      FALSE)
       IN  IF c.op = "connect"
           THEN /\ attempts' = [attempts EXCEPT ![a] =
                                   IF c.target \in sessions
                                   THEN [@ EXCEPT !.at = "driving", !.session = c.target]
                                   ELSE [@ EXCEPT !.at = "ended"]]
                /\ UNCHANGED sessions
           ELSE /\ attempts' = [attempts EXCEPT ![a] =
                                   [@ EXCEPT !.at = "driving",
                                             !.session = CreatedSession(a)]]
                /\ sessions' = sessions \cup {CreatedSession(a)}
    /\ UNCHANGED invocationVars

\* a page action (or the agent task) on the attempt's session, which rejects
\* when the session is no longer open
AttemptActs(a) ==
    /\ attempts[a].at = "driving"
    /\ attempts[a].acted < MaxPageActions
    /\ attempts[a].session \in sessions
    /\ attempts' = [attempts EXCEPT ![a].acted = @ + 1]
    /\ UNCHANGED sessions
    /\ UNCHANGED invocationVars

\* the try block is left, by return or by a rejection: the selector flows go
\* to finally { await browser.close() }, the agent flow returns
AttemptLeavesTry(a) ==
    /\ attempts[a].at = "driving"
    /\ attempts' = [attempts EXCEPT ![a].at =
                        IF attempts[a].flow = "agent" THEN "ended" ELSE "closing"]
    /\ UNCHANGED sessions
    /\ UNCHANGED invocationVars

\* browser.close() closes the session the attempt holds
AttemptCloses(a) ==
    /\ attempts[a].at = "closing"
    /\ sessions' = sessions \ {attempts[a].session}
    /\ attempts' = [attempts EXCEPT ![a].at = "ended"]
    /\ UNCHANGED invocationVars

ConcurrentNext ==
    \E a \in AttemptIds :
        \/ AttemptBegins(a)
        \/ AttemptAcquires(a)
        \/ AttemptActs(a)
        \/ AttemptLeavesTry(a)
        \/ AttemptCloses(a)

ConcurrentSpec == ConcurrentInit /\ [][ConcurrentNext]_vars

\* C15: when several attempts run at once, no session is driven by two of
\* them, and the session an attempt drives is open: no other attempt has
\* closed it.
EachAttemptOwnsItsSession ==
    /\ \A a, b \in AttemptIds :
          (a # b /\ Driving(a) /\ Driving(b))
              => attempts[a].session # attempts[b].session
    /\ \A a \in AttemptIds :
          attempts[a].at = "driving" => attempts[a].session \in sessions

-----------------------------------------------------------------------------
(* Order of the steps *)

\* The place of each step in the declared order of its flow
StepRank(p) ==
    CASE p \in {"L_getConfig", "C_validate", "A_getConfig"} -> 0
      [] p \in {"L_fetch", "C_fetch", "A_fetch"} -> 1
      [] p \in {"L_browser", "C_browser", "A_browser"} -> 2
      [] p \in {"L_navigate", "C_navigate", "A_task"} -> 3
      [] p \in {"L_preCheck", "C_cookie"} -> 4
      [] p = "C_openModal" -> 5
      [] p = "C_selectMesh" -> 6
      [] p = "C_waitAuth0" -> 7
      [] p = "C_organization" -> 8
      [] p \in {"L_username", "C_username"} -> 9
      [] p \in {"L_password", "C_password"} -> 10
      [] p = "L_otp" -> 11
      [] p = "L_locateOtp" -> 12
      [] p = "L_submitOtp" -> 13
      [] p = "L_otpRace" -> 14
      [] p = "L_otpVerify" -> 15
      [] p = "L_fallback" -> 16
      [] p = "L_fallbackRace" -> 17
      [] p \in {"L_finalVerify", "C_verify"} -> 18
      [] p \in {"L_finally", "C_finally"} -> 19
      [] p = "done" -> 20
      [] OTHER -> 0

\* a required step has failed: a call rejected out of its step, or the
\* try/catch has completed
RequiredStepFailed ==
    \/ \E i \in 1..Len(calls) : calls[i].out = "thrown"
    \/ decided # NoOutcome /\ ~decided.success

\* the calls that a step adds to those issued before it
NewCalls == SubSeq(calls', Len(calls) + 1, Len(calls'))

\* one step of an attempt, in order
InOrderStep ==
    /\ StepRank(pc') >= StepRank(pc)
    /\ Len(calls') >= Len(calls)
    \* the calls issued stay issued; only a pending one may settle
    /\ \A i \in 1..Len(calls) :
          \/ calls'[i] = calls[i]
          \/ calls[i].out = "pending" /\ calls'[i] = Out(calls[i], calls'[i].out)
    \* staying at a step is the settling of one of its pending calls
    /\ StepRank(pc') = StepRank(pc) => Len(calls') = Len(calls)
    \* a step issues calls only when the actions issued before have settled
    /\ Len(calls') > Len(calls) =>
          \A i \in 1..Len(calls) :
              calls[i].out = "pending" => calls[i].op = "waitForNavigation"
    \* after the failure of a required step only the session is closed
    /\ RequiredStepFailed =>
          \A j \in 1..Len(NewCalls) : NewCalls[j].op = "close"

-----------------------------------------------------------------------------
(* The raced submit *)

\* the steps that follow a Promise.all of a navigation wait and a submit
AfterRacePcs == {AfterRace(at) : at \in RacePcs} \cup {"L_fallback"}

\* C17: wherever a navigation wait is raced against a key-press or a click,
\* the flow is at a following step only when both have settled, and the
\* navigation wait never rejects into the flow: its timeout is not a failure.
BothAwaitedBeforeProceeding ==
    /\ pc \in AfterRacePcs => Pending = {}
    /\ \A i \in 1..Len(calls) :
          calls[i].op = "waitForNavigation" => calls[i].out # "thrown"

-----------------------------------------------------------------------------
(* Optional steps *)

\* the optional steps (cookie banner, organization prompt) and the step
\* that follows each
OptionalPcs == {"C_cookie", "C_organization"}
AfterOptional(p) == IF p = "C_cookie" THEN "C_openModal" ELSE "C_username"

\* an optional step: whatever its calls do, the flow is at the next step with
\* nothing but the record of the calls changed
OptionalStepSkipped ==
    pc \in OptionalPcs =>
        /\ pc' = AfterOptional(pc)
        /\ decided' = decided
        /\ result' = result
        /\ <<url', authPage', credentials', config', lastVerify'>>
              = <<url, authPage, credentials, config, lastVerify>>
        /\ \A j \in 1..Len(NewCalls) : NewCalls[j].out # "thrown"

\* C18: the failure of an optional step (cookie banner, organization prompt)
\* never ends the attempt and never changes the outcome: the flow goes on
\* with the next step as if the optional step had not been there.
OptionalStepNeverFatal == [][OptionalStepSkipped]_vars

\* C18 witness: the fill of the organization prompt rejected and the attempt
\* ended with Success
SucceededPastFailedOptionalStep ==
    /\ Done
    /\ Success
    /\ \E i \in 1..Len(calls) :
          /\ calls[i].op = "fill"
          /\ calls[i].target = OrganizationField
          /\ calls[i].out = "caught"

-----------------------------------------------------------------------------
(* Opening the login surface *)

\* a click on a trigger of the login surface (the login button, the Mesh
\* button), by the driver or by script
IsTriggerClick(c) ==
    /\ c.target \in {LoginNavButton, MeshButton}
    /\ c.op = "click" \/ (c.op = "evaluate" /\ c.arg = <<"node.click">>)

\* the wait for the page that the click on the Mesh button opens
IsNewPageWait(c) == c.op = "waitForEvent"

\* C19: in the opening of the login surface a failed tactic falls through to
\* the next: neither a trigger that cannot be clicked nor a click that
\* brings no new page within the timeout of the wait fails the flow.
OpenLoginSurfaceFallsThrough ==
    \A i \in 1..Len(calls) :
        (IsTriggerClick(calls[i]) \/ IsNewPageWait(calls[i]))
            => calls[i].out # "thrown"

-----------------------------------------------------------------------------
(* The terminal verification *)

\* the steps that verify the login at the end of the selector flows
TerminalVerifyPcs == {"L_finalVerify", "C_verify"}

\* the terminal verification waits for the URL of the authenticated area
\* with the greater of the configured timeout and the floor of 60000 ms
TerminalWaitHasFloor ==
    pc \in TerminalVerifyPcs =>
        /\ Len(NewCalls) >= 1
        /\ IsUrlWait(NewCalls[1])
        /\ NewCalls[1].ms = Max(config.timeoutMs, VerifyFloorMs)
        /\ NewCalls[1].ms >= VerifyFloorMs

\* C20: the wait of the terminal verification always has the timeout
\* max(configured timeout, 60000), so it is never shorter than 60 seconds.
TerminalWaitAtLeastFloor == [][TerminalWaitHasFloor]_vars

-----------------------------------------------------------------------------
(* Session options *)

\* the session was asked for with the proxy, the CAPTCHA solver and the extra
\* stealth switched on
RequestsEnhancedOptions(c) ==
    c.op = "create" /\ c.target = "proxy+captcha_solver+extra_stealth"

-----------------------------------------------------------------------------
(* Navigation to the home page *)

\* the page.goto of navigateToHomepage
IsHomeNavigation(c) == c.op = "goto" /\ c.target \in {"login", "home"}

\* the navigation rejected and the marker element was not visible: the
\* rejection left navigateToHomepage
HomeNavigationFailed ==
    \E i \in 1..Len(calls) : IsHomeNavigation(calls[i]) /\ calls[i].out = "thrown"

\* what the catch clause of the flow makes of the rejection of page.goto
NavigationFailureMessages ==
    { Rejection("goto"),
      Msg("Unknown error during Linkedin login.", <<>>),
      Msg("Unknown error during Mesh login.", <<>>) }

\* C22: when the navigation to the home page rejects, the marker element is
\* probed; if it is not visible the rejection is propagated: no credential
\* field is touched and the attempt ends as AttemptFailed with the message of
\* the navigation error.
NavigationFailureEndsAttempt ==
    /\ \A i \in 1..Len(calls) :
          (IsHomeNavigation(calls[i]) /\ calls[i].out # "resolved")
              => /\ i < Len(calls)
                 /\ calls[i + 1].op = "isVisible"
                 /\ calls[i + 1].target = LoginNavButton
    /\ HomeNavigationFailed =>
          /\ \A i \in 1..Len(calls) : ~TouchesCredentialField(calls[i])
          /\ Done => /\ AttemptFailed
                      /\ result.message \in NavigationFailureMessages

-----------------------------------------------------------------------------
(* Credential extraction *)

\* the extraction of the flow, and the values its forEach leaves, for a bundle
ExtractionOf(f, b) ==
    IF f = "comply" THEN parseComplyAdvantageCredentials(b)
    ELSE parseLinkedinCredentials(b)
ExtractedOf(f, b) ==
    IF f = "comply" THEN ComplyForEach(b, NoCredentials)
    ELSE LinkedinForEach(b, NoCredentials)

\* the extraction has thrown its Error
ExtractionFailed == result.message.kind = "Missing required credentials. Found:"

\* C23: for every bundle the extraction succeeds exactly when the user name
\* and the password it extracted are both non-empty, and fails otherwise with
\* an error that names the absent fields; the absence of the organization
\* alone does not make it fail.
ExtractionNeedsOnlyRequiredFields ==
    /\ pc \in {"L_fetch", "C_fetch"} =>
          \A b \in Bundles :
             LET c == ExtractedOf(flow, b)
                 r == ExtractionOf(flow, b)
             IN  /\ r.ok <=> (c.username # Empty /\ c.password # Empty)
                 /\ ~r.ok => \A f \in RequiredFields :
                                 c[f] = Empty <=> NamesMissing(r.msg, f)
    /\ ExtractionFailed =>
          \E f \in RequiredFields : NamesMissing(result.message, f)

-----------------------------------------------------------------------------
(* The judgment of the agent *)

\* C24: in loginWithAgent the outcome follows the answer of the agent:
\* Success is returned only when the agent answered "true", and the answers
\* "false" (credentials rejected) and "attempt_failed" give no Success.
OutcomeFollowsAgentJudgment ==
    (flow = "agent" /\ Done) =>
        /\ Success => agentVerdict.answer = "true"
        /\ agentVerdict.answer \in {"false", "attempt_failed"} => ~Success

-----------------------------------------------------------------------------
(* Termination *)

\* the waits of the flows: for a navigation, for a selector to be visible,
\* for a URL, for a new page
IsWait(c) ==
    c.op \in {"goto", "waitForSelector", "waitForURL", "waitForEvent", "waitForNavigation"}

\* the driver takes a timeout of 0 as no timeout
Bounded(c) == c.ms > 0

\* C25: every wait of an attempt (navigation, selector visibility, URL match,
\* new page, raced navigation wait) is bounded by a timeout, so that every
\* attempt whose awaited calls settle reaches its end (AttemptTerminates
\* under FairSpec).
EveryWaitIsBounded ==
    \A i \in 1..Len(calls) : IsWait(calls[i]) => Bounded(calls[i])

\* Each step is taken once its awaited calls have settled, which every call
\* that resolves, rejects or times out does
FairSpec == Spec /\ WF_vars(Next)

\* the invocation reaches its return (or its rejection)
AttemptTerminates == <>Done

-----------------------------------------------------------------------------
(* The code that is submitted *)

\* before the call at position i the code otp was entered: filled whole into
\* the combined field, or typed digit by digit into the fields 0, 1, 2, ...
CodeEnteredBefore(i, otp) ==
    IF otpInputs.type = "single"
    THEN \E j \in 1..(i - 1) :
            /\ calls[j].op = "fill"
            /\ calls[j].target = calls[i].target
            /\ calls[j].arg = otp
    ELSE \A k \in 1..Len(otp) :
            \E j \in 1..(i - 1) :
                /\ calls[j].op = "type"
                /\ calls[j].target = calls[i].target
                /\ calls[j].nth = k - 1
                /\ calls[j].arg = <<otp[k]>>

\* C26: in LoginToLinkedin, whenever the Enter key-press of the OTP step is
\* issued, the OTP of the credentials fetched after the password submit is
\* not empty, it has been entered into the located field(s), and the
\* key-press goes to a located field (an index that is not negative).
OtpKeyPressFollowsCode ==
    \A i \in 1..Len(calls) :
        IsOtpSubmit(calls[i]) =>
            /\ credentials.otp # Empty
            /\ CodeEnteredBefore(i, credentials.otp)
            /\ calls[i].target = otpInputs.selector
            /\ calls[i].nth >= 0

-----------------------------------------------------------------------------
(* The page the credentials are entered into *)

\* C27: the page selectMeshLoginOption chooses is the new page that the click
\* on the Mesh button opened, the original page, or an open page whose URL
\* matches the auth-provider pattern; never an unrelated page of the context.
ChosenPageIsAuthPage ==
    authPage # NoPage =>
        \/ authPage.how \in {"new", "original"}
        \/ IsAuthProviderUrl(authPage.url)

-----------------------------------------------------------------------------
(* After the OTP submit *)

\* the Enter key-press of the OTP step was issued and went through
OtpKeySubmitted ==
    \E i \in 1..Len(calls) : IsOtpSubmit(calls[i]) /\ calls[i].out = "resolved"

\* the call at position i comes after an OTP key-press and a verification,
\* later than the key-press, whose wait timed out
AfterFailedOtpVerification(i) ==
    \E p \in 1..(i - 1) : \E j \in (p + 1)..(i - 1) :
        /\ IsOtpSubmit(calls[p])
        /\ IsUrlWait(calls[j])
        /\ calls[j].out = "caught"

\* C28: in LoginToLinkedin, once the OTP key-press has been submitted the
\* outcome is that of the final URL verification alone: the fallback click
\* is issued at most once and only after the verification that follows the
\* key-press failed, and the attempt succeeds exactly when the final
\* verification matched, whatever the intermediate verification, the probes
\* of the submit controls and the fallback click did.
OutcomeAfterOtpIsFinalVerification ==
    /\ CountCalls(calls, IsFallbackClick) <= 1
    /\ \A i \in 1..Len(calls) :
          IsFallbackClick(calls[i]) => AfterFailedOtpVerification(i)
    /\ (Done /\ OtpKeySubmitted) =>
          /\ result.kind = "returned"
          /\ Success <=> lastVerify \in {"wait", "recheck"}

-----------------------------------------------------------------------------
(* Which record the credentials come from *)

IsUsernamePassword(rec) == rec.type = "username_password"

\* the positions of the username_password records of a bundle
UsernamePasswordAt(b) == {i \in 1..Len(b) : IsUsernamePassword(b[i])}

\* the steps at which a bundle is fetched and extracted
FetchPcs == {"L_fetch", "L_otp", "C_fetch"}

\* a bundle whose last username_password record follows another one with
\* other values
TwoRecordBundle == <<UsernamePassword(Empty, P2), UsernamePassword(U1, P1)>>

\* C29: for every bundle on which the extraction succeeds, the user name and
\* the password are those of one username_password record, the last one of
\* the bundle, and the records of other kinds do not change them.
CredentialsFromLastRecord ==
    /\ pc \in FetchPcs =>
          \A b \in Bundles :
             LET r == ExtractionOf(flow, b)
                 I == UsernamePasswordAt(b)
             IN  r.ok =>
                    /\ I # {}
                    /\ LET last == CHOOSE i \in I : \A j \in I : j <= i
                       IN  /\ r.creds.username = b[last].username
                           /\ r.creds.password = b[last].password
                    /\ LET only == ExtractedOf(flow, SelectSeq(b, IsUsernamePassword))
                       IN  /\ r.creds.username = only.username
                           /\ r.creds.password = only.password
    /\ credentials # NoCredentials =>
          \E rec \in RecordPool :
             /\ IsUsernamePassword(rec)
             /\ credentials.username = rec.username
             /\ credentials.password = rec.password

\* C29 witness: the credentials extracted are those of a bundle with two
\* username_password records, and they are the values of the second
ExtractedFromSecondRecord ==
    /\ pc = "L_browser"
    /\ TwoRecordBundle \in Bundles
    /\ ExtractionOf(flow, TwoRecordBundle).ok
    /\ credentials = ExtractionOf(flow, TwoRecordBundle).creds
    /\ credentials.username = U1
    /\ credentials.password = P1

====
